---- MODULE Spec2Model ----
(***************************************************************************)
(* Model of web/src/repositories/ProjectRepository.ts (docat web client).  *)
(*                                                                         *)
(* Strings are sequences of one-character strings, so that includes,       *)
(* toLowerCase, trim, localeCompare and semver.coerce are computed on the  *)
(* characters.                                                             *)
(***************************************************************************)
EXTENDS Integers, Sequences, FiniteSets

VARIABLES
  pc,            \* position of the caller: "start" before the call, "done" after it
  versionA,      \* compareVersions: first argument
  versionB,      \* compareVersions: second argument
  versionC,      \* a third descriptor, for the calls on (B, C) and (A, C)
  cmpAB, cmpBA,  \* results of compareVersions(A, B), compareVersions(B, A)
  cmpBC, cmpAC,  \* results of compareVersions(B, C), compareVersions(A, C)
  versions,      \* getLatestVersion: the caller's array (sorted in place by the call)
  versions0,     \* history: the caller's array as it was when the call was made
  latestRet,     \* getLatestVersion: the returned value
  latestThrew,   \* getLatestVersion: the error thrown, "none" when it returned
  heap,          \* filterHiddenVersions: the Project objects, by address
  heap0,         \* history: the heap when the call was made
  allProjects,   \* filterHiddenVersions: the caller's array (of addresses)
  filterRet,     \* filterHiddenVersions: the returned array (of addresses)
  projects,      \* search: the project list
  searchQuery,   \* search: the query
  searchRet,     \* search: the returned SearchResult
  localStorage,  \* the browser's key-value store: key -> value, absent keys not in DOMAIN
  lastSet,       \* history: project name -> the x of the most recent setFavorite(p, x)
  lastCall,      \* history: the most recent setFavorite call and the store before it
  favRead        \* the most recent isFavorite call, what it returned, and the
                 \* most recent setFavorite value of that project at the time

vars == <<pc, versionA, versionB, versionC, cmpAB, cmpBA, cmpBC, cmpAC,
          versions, versions0, latestRet, latestThrew,
          heap, heap0, allProjects, filterRet,
          projects, searchQuery, searchRet,
          localStorage, lastSet, lastCall, favRead>>

cmpVars    == <<versionA, versionB, versionC, cmpAB, cmpBA, cmpBC, cmpAC>>
latestVars == <<versions, versions0, latestRet, latestThrew>>
filterVars == <<heap, heap0, allProjects, filterRet>>
searchVars == <<projects, searchQuery, searchRet>>
favVars    == <<localStorage, lastSet, lastCall, favRead>>

\* JavaScript's undefined (an absent property, an out-of-bounds array read)
Undefined == [undefined |-> TRUE]
\* JavaScript's null (what semver.coerce returns for a name without digits)
Null      == [null |-> TRUE]
\* no error was thrown
None      == "none"

(***************************************************************************)
(* Bounds                                                                  *)
(***************************************************************************)
\* longest version array handed to getLatestVersion / held by one project
MaxVersions == 3
\* most versions in a whole project list handed to filterHiddenVersions / search
MaxListed == 3

(***************************************************************************)
(* Strings                                                                 *)
(***************************************************************************)
Digits == <<"0", "1", "2", "3", "4", "5", "6", "7", "8", "9">>
Lower  == <<"a", "b", "c", "d", "e", "f", "g", "h", "i", "j", "k", "l", "m",
            "n", "o", "p", "q", "r", "s", "t", "u", "v", "w", "x", "y", "z">>
Upper  == <<"A", "B", "C", "D", "E", "F", "G", "H", "I", "J", "K", "L", "M",
            "N", "O", "P", "Q", "R", "S", "T", "U", "V", "W", "X", "Y", "Z">>

Range(s) == {s[i] : i \in DOMAIN s}

IndexOf(s, c) == CHOOSE i \in DOMAIN s : s[i] = c

IsDigit(c) == c \in Range(Digits)
IsUpper(c) == c \in Range(Upper)

DigitVal(c) == IndexOf(Digits, c) - 1

\* UTF-16 code unit order of the characters used: space, '-', '.', digits,
\* upper case, lower case (32, 45, 46, 48..57, 65..90, 97..122).
CodeUnits == <<" ", "-", ".">> \o Digits \o Upper \o Lower

CodeUnit(c) == IndexOf(CodeUnits, c)

\* String.prototype.toLowerCase, one character
LowerChar(c) == IF IsUpper(c) THEN Lower[IndexOf(Upper, c)] ELSE c

\* String.prototype.toLowerCase
toLowerCase(s) == [i \in DOMAIN s |-> LowerChar(s[i])]

\* String.prototype.trim: drops leading and trailing white space
RECURSIVE trimStart(_)
trimStart(s) == IF s # <<>> /\ Head(s) = " " THEN trimStart(Tail(s)) ELSE s

RECURSIVE trimEnd(_)
trimEnd(s) ==
  IF s # <<>> /\ s[Len(s)] = " " THEN trimEnd(SubSeq(s, 1, Len(s) - 1)) ELSE s

trim(s) == trimEnd(trimStart(s))

\* String.prototype.includes: sub occurs in s as a contiguous substring
includes(s, sub) ==
  \E i \in 0..(Len(s) - Len(sub)) : SubSeq(s, i + 1, i + Len(sub)) = sub

\* Array.prototype.includes: x is an element of the array
arrayIncludes(arr, x) == \E i \in DOMAIN arr : arr[i] = x

Sign(n) == IF n < 0 THEN -1 ELSE IF n > 0 THEN 1 ELSE 0

\* comparison of two strings by UTF-16 code units (what < on strings does):
\* the plain lexical order
RECURSIVE CodeUnitCompare(_, _)
CodeUnitCompare(s, t) ==
  IF s = <<>> /\ t = <<>> THEN 0
  ELSE IF s = <<>> THEN -1
  ELSE IF t = <<>> THEN 1
  ELSE IF CodeUnit(Head(s)) < CodeUnit(Head(t)) THEN -1
  ELSE IF CodeUnit(Head(s)) > CodeUnit(Head(t)) THEN 1
  ELSE CodeUnitCompare(Tail(s), Tail(t))

(***************************************************************************)
(* String.prototype.localeCompare (line 234), as the browsers implement it:*)
(* ICU collation.  Primary level: white space, then punctuation            *)
(* ('-' before '.'), then digits, then letters in alphabetical order       *)
(* whatever their case.  Only when two strings are equal at the primary    *)
(* level does case decide: lower case first.                               *)
(***************************************************************************)
PrimaryOrder == <<" ", "-", ".">> \o Digits \o Lower

PrimaryWeight(c) == IndexOf(PrimaryOrder, LowerChar(c))

RECURSIVE PrimaryCompare(_, _)
PrimaryCompare(s, t) ==
  IF s = <<>> /\ t = <<>> THEN 0
  ELSE IF s = <<>> THEN -1
  ELSE IF t = <<>> THEN 1
  ELSE IF PrimaryWeight(Head(s)) < PrimaryWeight(Head(t)) THEN -1
  ELSE IF PrimaryWeight(Head(s)) > PrimaryWeight(Head(t)) THEN 1
  ELSE PrimaryCompare(Tail(s), Tail(t))

\* strings equal at the primary level have the same length and letters
RECURSIVE CaseCompare(_, _)
CaseCompare(s, t) ==
  IF s = <<>> \/ t = <<>> THEN 0
  ELSE IF ~IsUpper(Head(s)) /\ IsUpper(Head(t)) THEN -1
  ELSE IF IsUpper(Head(s)) /\ ~IsUpper(Head(t)) THEN 1
  ELSE CaseCompare(Tail(s), Tail(t))

localeCompare(s, t) ==
  IF PrimaryCompare(s, t) # 0 THEN PrimaryCompare(s, t) ELSE CaseCompare(s, t)

(***************************************************************************)
(* semver.coerce (line 230): the first run of digits of the string is the  *)
(* major version; a '.' and digits right after it the minor version; a '.' *)
(* and digits right after that the patch version; absent parts are 0.      *)
(* A string without a digit coerces to null.  (Runs of more than 16 digits *)
(* and leading zeros are outside the names used here.)                     *)
(***************************************************************************)
HasDigit(s) == \E i \in DOMAIN s : IsDigit(s[i])

FirstDigit(s) == CHOOSE i \in DOMAIN s : IsDigit(s[i]) /\ \A j \in 1..(i - 1) : ~IsDigit(s[j])

\* last index of the run of digits that starts at i
RunEnd(s, i) ==
  CHOOSE j \in i..Len(s) :
    /\ \A k \in i..j : IsDigit(s[k])
    /\ (j = Len(s) \/ ~IsDigit(s[j + 1]))

RECURSIVE NumVal(_, _, _)
NumVal(s, i, j) == IF j < i THEN 0 ELSE NumVal(s, i, j - 1) * 10 + DigitVal(s[j])

\* a '.' and a digit follow position j
DotDigit(s, j) == j + 2 <= Len(s) /\ s[j + 1] = "." /\ IsDigit(s[j + 2])

coerce(name) ==
  IF ~HasDigit(name) THEN Null
  ELSE
    LET i1 == FirstDigit(name)
        j1 == RunEnd(name, i1)
        hasMinor == DotDigit(name, j1)
        j2 == IF hasMinor THEN RunEnd(name, j1 + 2) ELSE j1
        hasPatch == hasMinor /\ DotDigit(name, j2)
        j3 == IF hasPatch THEN RunEnd(name, j2 + 2) ELSE j2
    IN [major |-> NumVal(name, i1, j1),
        minor |-> IF hasMinor THEN NumVal(name, j1 + 2, j2) ELSE 0,
        patch |-> IF hasPatch THEN NumVal(name, j2 + 2, j3) ELSE 0]

\* semver.compare (line 237) on two coerced versions (which carry no
\* pre-release): major, then minor, then patch
semverCompare(x, y) ==
  IF x.major # y.major THEN Sign(x.major - y.major)
  ELSE IF x.minor # y.minor THEN Sign(x.minor - y.minor)
  ELSE Sign(x.patch - y.patch)


(***************************************************************************)
(* Version names, tags and descriptors the calls are made on               *)
(***************************************************************************)
S_latest    == <<"l", "a", "t", "e", "s", "t">>
S_my_latest == <<"m", "y", "-">> \o S_latest
S_1_2_3     == <<"1", ".", "2", ".", "3">>
S_1_10_0    == <<"1", ".", "1", "0", ".", "0">>
S_v1_2_3    == <<"v">> \o S_1_2_3
S_dev       == <<"d", "e", "v">>
S_Main      == <<"M", "a", "i", "n">>
S_stable    == <<"s", "t", "a", "b", "l", "e">>
S_latest_lts == S_latest \o <<"-", "l", "t", "s">>

VersionNames == {S_1_2_3, S_1_10_0, S_v1_2_3, S_dev, S_Main, S_latest, S_my_latest}

TagLists == {<<>>, <<S_latest>>, <<S_stable, S_latest>>, <<S_latest_lts>>}

\* { name: string, tags?: string[] }: a descriptor with or without tags
Descriptors ==
  [name : VersionNames, tags : TagLists] \cup [name : VersionNames]

(***************************************************************************)
(* compareVersions (lines 221-238)                                         *)
(***************************************************************************)
\* versionX.tags ?? []
tagsOrEmpty(v) == IF "tags" \in DOMAIN v THEN v.tags ELSE <<>>

\* compareVersions without its second rule (B tagged "latest")
compareVersions_noRuleB(vA, vB) ==
  IF arrayIncludes(tagsOrEmpty(vA), S_latest) THEN 1
  ELSE
    LET semverA == coerce(vA.name)
        semverB == coerce(vB.name)
    IN IF semverA = Null \/ semverB = Null
         THEN localeCompare(vA.name, vB.name)
         ELSE semverCompare(semverA, semverB)

\* compareVersions comparing the raw names whenever they differ, coercible or not
compareVersions_rawNames(vA, vB) ==
  IF arrayIncludes(tagsOrEmpty(vA), S_latest) THEN 1
  ELSE IF arrayIncludes(tagsOrEmpty(vB), S_latest) THEN -1
  ELSE localeCompare(vA.name, vB.name)

compareVersions(vA, vB) ==
  IF arrayIncludes(tagsOrEmpty(vA), S_latest) THEN 1
  ELSE IF arrayIncludes(tagsOrEmpty(vB), S_latest) THEN -1
  ELSE
    LET semverA == coerce(vA.name)
        semverB == coerce(vB.name)
    IN IF semverA = Null \/ semverB = Null
         THEN localeCompare(vA.name, vB.name)
         ELSE semverCompare(semverA, semverB)

(***************************************************************************)
(* The state before any call                                               *)
(***************************************************************************)
IdleCompare ==
  /\ versionA = Undefined /\ versionB = Undefined /\ versionC = Undefined
  /\ cmpAB = 0 /\ cmpBA = 0 /\ cmpBC = 0 /\ cmpAC = 0

IdleLatest ==
  /\ versions = <<>> /\ versions0 = <<>>
  /\ latestRet = Undefined /\ latestThrew = None

IdleFilter ==
  /\ heap = <<>> /\ heap0 = <<>>
  /\ allProjects = <<>> /\ filterRet = <<>>

IdleSearch ==
  /\ projects = <<>> /\ searchQuery = <<>>
  /\ searchRet = [projects |-> <<>>, versions |-> <<>>]

IdleFav ==
  /\ localStorage = <<>> /\ lastSet = <<>>
  /\ lastCall = Undefined /\ favRead = Undefined

\* a caller compares A with B, B with A, B with C and A with C
CompareVersions ==
  /\ pc = "start"
  /\ pc' = "done"
  /\ cmpAB' = compareVersions(versionA, versionB)
  /\ cmpBA' = compareVersions(versionB, versionA)
  /\ cmpBC' = compareVersions(versionB, versionC)
  /\ cmpAC' = compareVersions(versionA, versionC)
  /\ UNCHANGED <<versionA, versionB, versionC>>
  /\ UNCHANGED <<latestVars, filterVars, searchVars, favVars>>

InitCompare ==
  /\ pc = "start"
  /\ versionA \in Descriptors
  /\ versionB \in Descriptors
  /\ versionC \in Descriptors
  /\ cmpAB = 0 /\ cmpBA = 0 /\ cmpBC = 0 /\ cmpAC = 0
  /\ IdleLatest /\ IdleFilter /\ IdleSearch /\ IdleFav

NextCompare == CompareVersions

SpecCompare == InitCompare /\ [][NextCompare]_vars

\* the descriptor carries the tag "latest"
TaggedLatest(v) == arrayIncludes(tagsOrEmpty(v), S_latest)

Coercible(v) == coerce(v.name) # Null

\* semantic-version precedence of two coerced versions, as -1, 0 or 1
Precedence(x, y) ==
  IF \/ x.major < y.major
     \/ (x.major = y.major /\ x.minor < y.minor)
     \/ (x.major = y.major /\ x.minor = y.minor /\ x.patch < y.patch)
    THEN -1
  ELSE IF x = y THEN 0 ELSE 1

\* C2: compareVersions is antisymmetric on every pair that is not tagged
\* "latest" on both sides: the two results have opposite signs.
C2_Antisymmetric ==
  (pc = "done" /\ ~(TaggedLatest(versionA) /\ TaggedLatest(versionB)))
    => Sign(cmpAB) = -Sign(cmpBA)

\* C2 witness: a coercible name against a non-coercible one, compared both ways
C2_Witness ==
  /\ pc = "done"
  /\ ~TaggedLatest(versionA) /\ ~TaggedLatest(versionB)
  /\ Coercible(versionA) /\ ~Coercible(versionB)
  /\ cmpAB = -1 /\ cmpBA = 1

\* C3: compareVersions is transitive: with at most one of A, B, C tagged
\* "latest", A <= B and B <= C give A <= C.
C3_Transitive ==
  (/\ pc = "done"
   /\ Cardinality({i \in 1..3 : TaggedLatest(<<versionA, versionB, versionC>>[i])}) <= 1
   /\ cmpAB <= 0
   /\ cmpBC <= 0)
    => cmpAC <= 0

\* C6 as stated: the rules in priority order, the last one being the
\* case-sensitive lexical (code unit) comparison of the raw names.
C6_LexicalFallback ==
  pc = "done" =>
    cmpAB = IF TaggedLatest(versionA) THEN 1
            ELSE IF TaggedLatest(versionB) THEN -1
            ELSE IF Coercible(versionA) /\ Coercible(versionB)
              THEN Precedence(coerce(versionA.name), coerce(versionB.name))
            ELSE CodeUnitCompare(versionA.name, versionB.name)

\* C6 amended: A tagged "latest" gives 1; else B tagged "latest" gives -1;
\* else two coercible names compare by semantic-version precedence (1.2.3
\* below 1.10.0); else the raw names compare by locale collation
\* (localeCompare), under which "dev" sorts before "Main".
C6_Rules ==
  pc = "done" =>
    /\ TaggedLatest(versionA) => cmpAB = 1
    /\ (~TaggedLatest(versionA) /\ TaggedLatest(versionB)) => cmpAB = -1
    /\ (~TaggedLatest(versionA) /\ ~TaggedLatest(versionB)) =>
         /\ (Coercible(versionA) /\ Coercible(versionB)) =>
              cmpAB = Precedence(coerce(versionA.name), coerce(versionB.name))
         /\ (versionA.name = S_1_2_3 /\ versionB.name = S_1_10_0) => cmpAB = -1
         /\ ~(Coercible(versionA) /\ Coercible(versionB)) =>
              cmpAB = localeCompare(versionA.name, versionB.name)
         /\ (versionA.name = S_dev /\ versionB.name = S_Main) => cmpAB = -1

\* C6 witness: the fallback rule decided, where collation and code units differ
C6_Witness ==
  /\ pc = "done"
  /\ ~TaggedLatest(versionA) /\ ~TaggedLatest(versionB)
  /\ versionA.name = S_dev /\ versionB.name = S_Main
  /\ cmpAB = -1
  /\ CodeUnitCompare(versionA.name, versionB.name) = 1

(***************************************************************************)
(* Array.prototype.sort (line 56): sorts the array in place and returns it.*)
(* With a comparator that is consistent on the elements the sort is stable *)
(* and its result is determined; with one that is not, the order of the    *)
(* result is implementation-defined: any permutation of the elements.      *)
(***************************************************************************)
Perms(n) ==
  {p \in [1..n -> 1..n] : \A i, j \in 1..n : p[i] = p[j] => i = j}

consistentComparator(arr) ==
  \A i, j, k \in DOMAIN arr :
    LET ij == compareVersions(arr[i], arr[j])
        ji == compareVersions(arr[j], arr[i])
        jk == compareVersions(arr[j], arr[k])
        ik == compareVersions(arr[i], arr[k])
    IN /\ compareVersions(arr[i], arr[i]) = 0
       /\ Sign(ij) = -Sign(ji)
       /\ (ij = 0 /\ jk = 0) => ik = 0
       /\ (ij < 0 /\ jk < 0) => ik < 0
       /\ (ij > 0 /\ jk > 0) => ik > 0

stableSorted(arr, p) ==
  \A i, j \in DOMAIN arr :
    i < j =>
      LET c == compareVersions(arr[p[i]], arr[p[j]])
      IN c < 0 \/ (c = 0 /\ p[i] < p[j])

sortOutcomes(arr) ==
  LET n == Len(arr)
      reorder(p) == [i \in 1..n |-> arr[p[i]]]
  IN IF consistentComparator(arr)
       THEN {reorder(p) : p \in {q \in Perms(n) : stableSorted(arr, q)}}
       ELSE {reorder(p) : p \in Perms(n)}

(***************************************************************************)
(* getLatestVersion (lines 44-59).  Each outcome is the returned value,    *)
(* the array as the call leaves it, and the error thrown.                  *)
(***************************************************************************)
\* Array.prototype.find: the first element that satisfies the test, or
\* undefined; Matching is the set of the indices whose element satisfies it
find(arr, Matching) ==
  IF Matching # {}
    THEN arr[CHOOSE i \in Matching : \A j \in Matching : i <= j]
    ELSE Undefined

\* arr[i] of a JavaScript array, 0-based: undefined outside the array
at(arr, i) == IF i + 1 \in DOMAIN arr THEN arr[i + 1] ELSE Undefined

getLatestVersion(vs) ==
  LET latest    == find(vs, {i \in DOMAIN vs : includes(vs[i].name, S_latest)})
      latestTag == find(vs, {i \in DOMAIN vs : arrayIncludes(vs[i].tags, S_latest)})
  IN IF latest # Undefined
       THEN {[ret |-> latest, arr |-> vs, threw |-> None]}
     ELSE IF latestTag # Undefined
       THEN {[ret |-> latestTag, arr |-> vs, threw |-> None]}
     ELSE {[ret |-> at(sortedVersions, Len(sortedVersions) - 1),
            arr |-> sortedVersions, threw |-> None] :
             sortedVersions \in sortOutcomes(vs)}

GetLatestVersion ==
  /\ pc = "start"
  /\ pc' = "done"
  /\ \E out \in getLatestVersion(versions) :
       /\ latestRet' = out.ret
       /\ versions' = out.arr
       /\ latestThrew' = out.threw
  /\ UNCHANGED versions0
  /\ UNCHANGED <<cmpVars, filterVars, searchVars, favVars>>

\* ProjectDetails as getLatestVersion reads them: a name and tags
ProjectDetails == [name : VersionNames, tags : TagLists]

UniqueNames(arr) ==
  \A i, j \in DOMAIN arr : arr[i].name = arr[j].name => i = j

\* the arrays of at most n elements of S whose names are all different
\* (within a project version names are unique, and so are project names)
RECURSIVE ArraysUpTo(_, _)
ArraysUpTo(S, n) ==
  IF n = 0 THEN {<<>>}
  ELSE LET shorter == ArraysUpTo(S, n - 1)
           longest == {arr \in shorter : Len(arr) = n - 1}
       IN shorter \cup {longer \in {Append(arr, x) : arr \in longest, x \in S} :
                          UniqueNames(longer)}

\* the arrays handed to getLatestVersion
VersionArrays == ArraysUpTo(ProjectDetails, MaxVersions)

InitLatest ==
  /\ pc = "start"
  /\ versions \in VersionArrays
  /\ versions0 = versions
  /\ latestRet = Undefined /\ latestThrew = None
  /\ IdleCompare /\ IdleFilter /\ IdleSearch /\ IdleFav

NextLatest == GetLatestVersion

SpecLatest == InitLatest /\ [][NextLatest]_vars

(***************************************************************************)
(* Properties of getLatestVersion                                          *)
(***************************************************************************)
\* C1: on a non-empty array getLatestVersion returns the first version whose
\* name contains "latest", else the first one tagged "latest", else a maximum
\* under compareVersions (no element compares greater than it).
C1_Precedence ==
  (pc = "done" /\ versions0 # <<>>) =>
    LET byName == {i \in DOMAIN versions0 : includes(versions0[i].name, S_latest)}
        byTag  == {i \in DOMAIN versions0 : arrayIncludes(versions0[i].tags, S_latest)}
        First(I) == CHOOSE i \in I : \A j \in I : i <= j
    IN IF byName # {} THEN latestRet = versions0[First(byName)]
       ELSE IF byTag # {} THEN latestRet = versions0[First(byTag)]
       ELSE /\ \E i \in DOMAIN versions0 : latestRet = versions0[i]
            /\ \A i \in DOMAIN versions0 :
                 ~(compareVersions(versions0[i], latestRet) > 0)

\* C4: on an empty array getLatestVersion fails with an InvalidInput error
C4_EmptyIsInvalidInput ==
  (pc = "done" /\ versions0 = <<>>) => latestThrew = "InvalidInput"

\* C5: getLatestVersion leaves the caller's array as it was
C5_ArrayNotMutated ==
  pc = "done" => versions = versions0

(***************************************************************************)
(* Project lists handed to filterHiddenVersions and search                 *)
(***************************************************************************)
S_v1_beta == <<"v", "1", "-", "b", "e", "t", "a">>
S_alpha   == <<"a", "l", "p", "h", "a">>
S_Beta    == <<"B", "e", "t", "a">>

ProjectNames == {S_alpha, S_Beta}

\* the versions of a Project: name, tags, hidden
ListedVersions ==
  [name : {S_1_2_3, S_Beta, S_dev},
   tags : {<<>>, <<S_v1_beta, S_latest>>},
   hidden : BOOLEAN]

ListedVersionArrays == ArraysUpTo(ListedVersions, MaxListed)

\* the projects with exactly k versions, and with at most budget versions
ProjectsOfLen(k) ==
  [name : ProjectNames, versions : {arr \in ListedVersionArrays : Len(arr) = k}]

ProjectsWithin(budget) ==
  [name : ProjectNames, versions : {arr \in ListedVersionArrays : Len(arr) <= budget}]

\* the lists of two projects, the first with k versions or more
RECURSIVE PairsFrom(_)
PairsFrom(k) ==
  IF k > MaxListed THEN {}
  ELSE {ps \in ProjectsOfLen(k) \X ProjectsWithin(MaxListed - k) :
          ps[1].name # ps[2].name}
       \cup PairsFrom(k + 1)

\* project names are unique; at most MaxListed versions in the whole list
ProjectLists ==
  {<<>>} \cup {<<project>> : project \in ProjectsWithin(MaxListed)} \cup PairsFrom(0)

(***************************************************************************)
(* filterHiddenVersions (lines 9-18).  Project objects live on the heap    *)
(* (address -> object) and arrays of projects hold addresses, so that a    *)
(* write through the copy and a write through the argument differ.         *)
(***************************************************************************)
\* Array.prototype.filter is SelectSeq.

\* JSON.parse(JSON.stringify(project)): a fresh object with the same name and,
\* version by version, the same name, tags and hidden flag
jsonClone(project) ==
  [name |-> project.name,
   versions |-> [i \in DOMAIN project.versions |->
                   [name   |-> project.versions[i].name,
                    tags   |-> project.versions[i].tags,
                    hidden |-> project.versions[i].hidden]]]

\* filterHiddenVersions working on the argument's own objects (no deep copy)
filterHiddenVersions_noCopy(h, all) ==
  LET ps == all
      h2 == [a \in DOMAIN h |->
               IF arrayIncludes(ps, a)
                 THEN [h[a] EXCEPT !.versions = SelectSeq(@, LAMBDA v : ~v.hidden)]
                 ELSE h[a]]
  IN [ret |-> SelectSeq(ps, LAMBDA a : Len(h2[a].versions) > 0), heap |-> h2]

\* the returned array and the heap as the call leaves it
filterHiddenVersions(h, all) ==
  LET n  == Len(h)
      \* line 11: the deep copy allocates one new object per project
      h1 == h \o [i \in DOMAIN all |-> jsonClone(h[all[i]])]
      ps == [i \in DOMAIN all |-> n + i]
      \* lines 13-15: forEach writes p.versions of every copied project
      h2 == [a \in DOMAIN h1 |->
               IF arrayIncludes(ps, a)
                 THEN [h1[a] EXCEPT !.versions = SelectSeq(@, LAMBDA v : ~v.hidden)]
                 ELSE h1[a]]
     \* line 17
  IN [ret |-> SelectSeq(ps, LAMBDA a : Len(h2[a].versions) > 0), heap |-> h2]

FilterHiddenVersions ==
  /\ pc = "start"
  /\ pc' = "done"
  /\ LET out == filterHiddenVersions(heap, allProjects)
     IN /\ filterRet' = out.ret
        /\ heap' = out.heap
  /\ UNCHANGED <<heap0, allProjects>>
  /\ UNCHANGED <<cmpVars, latestVars, searchVars, favVars>>

InitFilter ==
  /\ pc = "start"
  /\ heap \in ProjectLists
  /\ heap0 = heap
  /\ allProjects = [i \in DOMAIN heap |-> i]
  /\ filterRet = <<>>
  /\ IdleCompare /\ IdleLatest /\ IdleSearch /\ IdleFav

NextFilter == FilterHiddenVersions

SpecFilter == InitFilter /\ [][NextFilter]_vars

(***************************************************************************)
(* search (lines 67-116)                                                   *)
(***************************************************************************)
\* Array.prototype.flat: one level
RECURSIVE flat(_)
flat(arrs) == IF arrs = <<>> THEN <<>> ELSE Head(arrs) \o flat(Tail(arrs))

\* lines 70-77: the projects whose name matches and that show a version
\* (filter is SelectSeq, lodash some is \E, map builds the array by index)
projectResults(ps, searchQueryLower) ==
  LET matching ==
        SelectSeq(ps, LAMBDA project :
                    /\ includes(toLowerCase(project.name), searchQueryLower)
                    /\ \E i \in DOMAIN project.versions : ~project.versions[i].hidden)
  IN [i \in DOMAIN matching |-> [name |-> matching[i].name]]

\* lines 79-91: the versions whose name matches and that are not hidden
versionResults(ps, searchQueryLower) ==
  LET versionsOf(project) ==
        LET matching ==
              SelectSeq(project.versions, LAMBDA version :
                          /\ includes(toLowerCase(version.name), searchQueryLower)
                          /\ ~version.hidden)
        IN [i \in DOMAIN matching |->
              [project |-> project.name, version |-> matching[i].name]]
  IN flat([p \in DOMAIN ps |-> versionsOf(ps[p])])

\* tagResults looking at the tags of every version, hidden or not
tagResults_allVersions(ps, searchQueryLower) ==
  LET matchingTags(version) ==
        SelectSeq(version.tags,
                  LAMBDA tag : includes(toLowerCase(tag), searchQueryLower))
      entries(project, tags) ==
        [t \in DOMAIN tags |-> [project |-> project.name, version |-> tags[t]]]
      tagsOf(project) ==
        LET shown == project.versions
        IN flat([i \in DOMAIN shown |-> entries(project, matchingTags(shown[i]))])
  IN flat([p \in DOMAIN ps |-> tagsOf(ps[p])])

\* lines 93-110: the matching tags of the versions that are not hidden
tagResults(ps, searchQueryLower) ==
  LET matchingTags(version) ==
        SelectSeq(version.tags,
                  LAMBDA tag : includes(toLowerCase(tag), searchQueryLower))
      entries(project, tags) ==
        [t \in DOMAIN tags |-> [project |-> project.name, version |-> tags[t]]]
      tagsOf(project) ==
        LET shown == SelectSeq(project.versions, LAMBDA version : ~version.hidden)
        IN flat([i \in DOMAIN shown |-> entries(project, matchingTags(shown[i]))])
  IN flat([p \in DOMAIN ps |-> tagsOf(ps[p])])

\* search returning the tag matches ahead of the name matches
search_tagsFirst(ps, query) ==
  LET searchQueryLower == trim(toLowerCase(query))
  IN [projects |-> projectResults(ps, searchQueryLower),
      versions |-> tagResults(ps, searchQueryLower)
                     \o versionResults(ps, searchQueryLower)]

search(ps, query) ==
  LET searchQueryLower == trim(toLowerCase(query))
  IN [projects |-> projectResults(ps, searchQueryLower),
      versions |-> versionResults(ps, searchQueryLower)
                     \o tagResults(ps, searchQueryLower)]

Search ==
  /\ pc = "start"
  /\ pc' = "done"
  /\ searchRet' = search(projects, searchQuery)
  /\ UNCHANGED <<projects, searchQuery>>
  /\ UNCHANGED <<cmpVars, latestVars, filterVars, favVars>>

S_BETA_padded == <<" ", "B", "E", "T", "A", " ">>

Queries == {<<>>, <<"a">>, S_BETA_padded, S_latest}

InitSearch ==
  /\ pc = "start"
  /\ projects \in ProjectLists
  /\ searchQuery \in Queries
  /\ searchRet = [projects |-> <<>>, versions |-> <<>>]
  /\ IdleCompare /\ IdleLatest /\ IdleFilter /\ IdleFav

NextSearch == Search

SpecSearch == InitSearch /\ [][NextSearch]_vars

(***************************************************************************)
(* Properties of filterHiddenVersions and search                           *)
(***************************************************************************)
\* the k-th smallest element of a set of indices
Nth(I, k) == CHOOSE i \in I : Cardinality({j \in I : j < i}) = k - 1

\* the indices of the versions of a project that are not hidden
Visible(project) == {j \in DOMAIN project.versions : ~project.versions[j].hidden}

\* C7: filterHiddenVersions leaves the argument's projects as they were and
\* returns new objects: the input projects that have a non-hidden version, in
\* input order, each with exactly its non-hidden versions in their order.
C7_FilterHidden ==
  pc = "done" =>
    LET input == [i \in DOMAIN allProjects |-> heap0[allProjects[i]]]
        Kept  == {i \in DOMAIN input : Visible(input[i]) # {}}
    IN /\ \A a \in DOMAIN heap0 : a \in DOMAIN heap /\ heap[a] = heap0[a]
       /\ \A k \in DOMAIN filterRet : filterRet[k] \notin DOMAIN heap0
       /\ Len(filterRet) = Cardinality(Kept)
       /\ \A k \in DOMAIN filterRet :
            LET src == input[Nth(Kept, k)]
                out == heap[filterRet[k]]
            IN /\ out.name = src.name
               /\ Len(out.versions) = Cardinality(Visible(src))
               /\ Len(out.versions) > 0
               /\ \A m \in DOMAIN out.versions :
                    /\ out.versions[m] = src.versions[Nth(Visible(src), m)]
                    /\ ~out.versions[m].hidden

\* C7 witness: of two projects the first, all hidden, is dropped and the
\* second is returned with one of its two versions
C7_Witness ==
  /\ pc = "done"
  /\ Len(allProjects) = 2
  /\ Len(heap0[allProjects[1]].versions) = 1
  /\ Len(heap0[allProjects[2]].versions) = 2
  /\ Len(filterRet) = 1
  /\ heap[filterRet[1]].name = heap0[allProjects[2]].name
  /\ Len(heap[filterRet[1]].versions) = 1

\* the positions a version can have in a project, and a tag in a version
VersionPositions == UNION {DOMAIN arr : arr \in ListedVersionArrays}

TagPositions == UNION {DOMAIN v.tags : v \in ListedVersions}

\* the query as search matches it, and a string matching it
Normalised(query) == trim(toLowerCase(query))

Matches(str, query) == includes(toLowerCase(str), Normalised(query))

\* C8: a project without a non-hidden version is in no entry of
\* result.projects, and every entry of result.versions stems from a
\* non-hidden version: there are at most as many entries {project P, version
\* X} as P has non-hidden versions named X plus tags X on non-hidden versions.
C8_NoHiddenData ==
  pc = "done" =>
    LET Entries(P, X) ==
          {k \in DOMAIN searchRet.versions :
             searchRet.versions[k] = [project |-> P, version |-> X]}
        NameSources(P, X) ==
          {<<i, j>> \in (DOMAIN projects) \X VersionPositions :
             /\ projects[i].name = P
             /\ j \in Visible(projects[i])
             /\ projects[i].versions[j].name = X}
        TagSources(P, X) ==
          {<<i, j, t>> \in (DOMAIN projects) \X VersionPositions \X TagPositions :
             /\ projects[i].name = P
             /\ j \in Visible(projects[i])
             /\ t \in DOMAIN projects[i].versions[j].tags
             /\ projects[i].versions[j].tags[t] = X}
    IN /\ \A i \in DOMAIN projects :
            Visible(projects[i]) = {} =>
              \A k \in DOMAIN searchRet.projects :
                searchRet.projects[k].name # projects[i].name
       /\ \A k \in DOMAIN searchRet.versions :
            LET e == searchRet.versions[k]
            IN Cardinality(Entries(e.project, e.version))
                 <= Cardinality(NameSources(e.project, e.version))
                      + Cardinality(TagSources(e.project, e.version))

\* C8 witness: a project with only a hidden version, whose name, version
\* name and tags all match the query, next to a project that yields entries
C8_Witness ==
  /\ pc = "done"
  /\ Len(projects) = 2
  /\ Len(projects[1].versions) = 1
  /\ projects[1].versions[1].hidden
  /\ Matches(projects[1].name, searchQuery)
  /\ Matches(projects[1].versions[1].name, searchQuery)
  /\ projects[1].versions[1].tags # <<>>
  /\ Matches(projects[1].versions[1].tags[1], searchQuery)
  /\ searchRet.versions # <<>>
  /\ searchRet.projects = <<[name |-> projects[2].name]>>

\* C10: result.versions holds the name matches (project by project, version
\* by version) and after them the tag matches (project by project, version by
\* version, tag by tag); a name match shows the version's name, a tag match
\* the tag.
C10_SearchOrder ==
  pc = "done" =>
    LET NameHits ==
          {h \in (DOMAIN projects) \X VersionPositions :
             /\ h[2] \in Visible(projects[h[1]])
             /\ Matches(projects[h[1]].versions[h[2]].name, searchQuery)}
        TagHits ==
          {h \in (DOMAIN projects) \X VersionPositions \X TagPositions :
             /\ h[2] \in Visible(projects[h[1]])
             /\ h[3] \in DOMAIN projects[h[1]].versions[h[2]].tags
             /\ Matches(projects[h[1]].versions[h[2]].tags[h[3]], searchQuery)}
        Before(g, h) ==
          \/ g[1] < h[1]
          \/ (g[1] = h[1] /\ g[2] < h[2])
          \/ (g[1] = h[1] /\ g[2] = h[2] /\ Len(g) = 3 /\ g[3] < h[3])
        Rank(H, h) == Cardinality({g \in H : Before(g, h)}) + 1
    IN /\ Len(searchRet.versions) = Cardinality(NameHits) + Cardinality(TagHits)
       /\ \A h \in NameHits :
            searchRet.versions[Rank(NameHits, h)] =
              [project |-> projects[h[1]].name,
               version |-> projects[h[1]].versions[h[2]].name]
       /\ \A h \in TagHits :
            searchRet.versions[Cardinality(NameHits) + Rank(TagHits, h)] =
              [project |-> projects[h[1]].name,
               version |-> projects[h[1]].versions[h[2]].tags[h[3]]]

\* C10 witness: name matches in two projects, followed by the tag matches
C10_Witness ==
  /\ pc = "done"
  /\ Len(projects) = 2
  /\ Len(searchRet.versions) = 6
  /\ searchRet.versions[1] = [project |-> projects[1].name, version |-> S_Beta]
  /\ searchRet.versions[2] = [project |-> projects[2].name, version |-> S_dev]
  /\ searchRet.versions[3] = [project |-> projects[1].name, version |-> S_v1_beta]
  /\ searchRet.versions[4] = [project |-> projects[1].name, version |-> S_latest]
  /\ searchRet.versions[5] = [project |-> projects[2].name, version |-> S_v1_beta]
  /\ searchRet.versions[6] = [project |-> projects[2].name, version |-> S_latest]

(***************************************************************************)
(* isFavorite / setFavorite (lines 245-260) on the browser's localStorage  *)
(***************************************************************************)
S_docs == <<"d", "o", "c", "s">>

FavoriteKeys == ProjectNames \cup {S_docs}

\* a string value held by the store (kept apart from null)
StringValue(str) == [string |-> str]

\* Storage.getItem: the value stored under key, or null
getItem(store, key) == IF key \in DOMAIN store THEN store[key] ELSE Null

\* Storage.setItem: key now holds value, every other key as before
setItem(store, key, value) ==
  [k \in DOMAIN store \cup {key} |-> IF k = key THEN value ELSE store[k]]

\* Storage.removeItem: key is no longer in the store, every other key as before
removeItem(store, key) == [k \in DOMAIN store \ {key} |-> store[k]]

isFavorite(store, projectName) ==
  getItem(store, projectName) = StringValue("favorite")

\* setFavorite that stores "false" for a project that is no favorite
setFavorite_tombstone(store, projectName, shouldBeFavorite) ==
  IF shouldBeFavorite
    THEN setItem(store, projectName, StringValue("favorite"))
    ELSE setItem(store, projectName, StringValue("false"))

\* the store after setFavorite(projectName, shouldBeFavorite)
setFavorite(store, projectName, shouldBeFavorite) ==
  IF shouldBeFavorite
    THEN setItem(store, projectName, StringValue("favorite"))
    ELSE removeItem(store, projectName)

SetFavorite(projectName, shouldBeFavorite) ==
  /\ localStorage' = setFavorite(localStorage, projectName, shouldBeFavorite)
  /\ lastSet' = [lastSet EXCEPT ![projectName] = shouldBeFavorite]
  /\ lastCall' = [projectName |-> projectName,
                  shouldBeFavorite |-> shouldBeFavorite,
                  before |-> localStorage]
  /\ UNCHANGED <<pc, favRead>>
  /\ UNCHANGED <<cmpVars, latestVars, filterVars, searchVars>>

IsFavorite(projectName) ==
  /\ favRead' = [projectName |-> projectName,
                 result |-> isFavorite(localStorage, projectName),
                 lastSet |-> lastSet[projectName]]
  /\ UNCHANGED <<pc, localStorage, lastSet, lastCall>>
  /\ UNCHANGED <<cmpVars, latestVars, filterVars, searchVars>>

InitFav ==
  /\ pc = "start"
  /\ localStorage = <<>>
  /\ lastSet = [p \in FavoriteKeys |-> FALSE]
  /\ lastCall = Undefined
  /\ favRead = Undefined
  /\ IdleCompare /\ IdleLatest /\ IdleFilter /\ IdleSearch

NextFav ==
  \/ \E p \in FavoriteKeys, x \in BOOLEAN : SetFavorite(p, x)
  \/ \E p \in FavoriteKeys : IsFavorite(p)

SpecFav == InitFav /\ [][NextFav]_vars

\* C9: starting from an empty store, isFavorite(p) is the value of the most
\* recent setFavorite(p, x) (false when there was none), the store holds key
\* p exactly when p is a favorite, and a setFavorite call on p leaves every
\* other key as it was.
C9_FavoriteStore ==
  /\ \A p \in FavoriteKeys :
       /\ isFavorite(localStorage, p) = lastSet[p]
       /\ (p \in DOMAIN localStorage) = isFavorite(localStorage, p)
  /\ favRead # Undefined => favRead.result = favRead.lastSet
  /\ lastCall # Undefined =>
       /\ DOMAIN localStorage \subseteq FavoriteKeys
       /\ \A q \in FavoriteKeys \ {lastCall.projectName} :
            /\ (q \in DOMAIN localStorage) = (q \in DOMAIN lastCall.before)
            /\ getItem(localStorage, q) = getItem(lastCall.before, q)

\* C9 witness: a project was marked and then unmarked while another one
\* stayed a favorite, and isFavorite was read on the unmarked one
C9_Witness ==
  /\ lastCall # Undefined
  /\ lastCall.shouldBeFavorite = FALSE
  /\ lastCall.projectName \in DOMAIN lastCall.before
  /\ DOMAIN localStorage # {}
  /\ favRead # Undefined
  /\ favRead.projectName = lastCall.projectName
  /\ favRead.result = FALSE
  /\ lastCall.projectName \notin DOMAIN localStorage

====
